---- MODULE Spec2Model ----
(***************************************************************************)
(* A model of the card/still downloader: the Downloader orchestrator       *)
(* (downloader.py), the item model (classes.py) and the list and detail    *)
(* parsers (html_parser.py).                                               *)
(*                                                                         *)
(* Text is modelled as a sequence of tokens, a URL as its directory        *)
(* segments, stem and suffix, a page of markup as the regions the parsers  *)
(* look up.  One step of the model is what one coroutine does between two  *)
(* suspension points (a network fetch is the only suspension point).       *)
(***************************************************************************)
EXTENDS Naturals, Sequences, FiniteSets, TLC

\* ------------------------------------------------------------------ bounds
MaxKey == 2          \* item keys are 1..MaxKey
MaxCalls == 3        \* calls of update() and download() in one behaviour
MaxEvents == 2       \* republished pages and failed responses in one behaviour
MaxContainers == 3   \* item containers on a list page given to a single get_page

Keys == 1..MaxKey

\* ------------------------------------------------------------- sequences
Range(s) == {s[i] : i \in DOMAIN s}

RECURSIVE InsertDesc(_, _)
\* sorted(..., reverse=True) on integers: insertion into a descending sequence
InsertDesc(s, n) ==
    IF s = <<>> THEN <<n>>
    ELSE IF n >= Head(s) THEN <<n>> \o s
    ELSE <<Head(s)>> \o InsertDesc(Tail(s), n)

RECURSIVE SortDesc(_)
SortDesc(s) == IF s = <<>> THEN <<>> ELSE InsertDesc(SortDesc(Tail(s)), Head(s))

\* --------------------------------------------------------------------- URLs
\* "//host/<dirs>/<stem><suffix>"; None stands for Python's None (no href).
Url(dirs, stem, suffix) == [dirs |-> dirs, stem |-> stem, suffix |-> suffix]
None == Url(<<>>, "None", "")
IsStr(u) == u # None

CNormLo == Url(<<"1x">>, "n", ".png")
CIdolLo == Url(<<"1x">>, "i", ".png")
CNormHi == Url(<<"2x">>, "n", ".png")
CIdolHi == Url(<<"2x">>, "i", ".png")
SLo == Url(<<"1x">>, "s", ".png")
SHi == Url(<<"2x">>, "s", ".png")
CNormHiB == Url(<<"2x">>, "n2", ".png")
CIdolHiB == Url(<<"2x">>, "i2", ".png")
SHiB == Url(<<"2x">>, "s2", ".png")

\* re.compile(r"/2x/").search(url): some directory segment is exactly "2x"
HasDoubleSizeMarker(u) == \E i \in DOMAIN u.dirs : u.dirs[i] = "2x"

\* --------------------------------------------------------------------- text
Strip(t) ==
    LET idx == {i \in DOMAIN t : t[i] # " "}
    IN  IF idx = {} THEN <<>>
        ELSE LET lo == CHOOSE i \in idx : \A j \in idx : i <= j
                 hi == CHOOSE i \in idx : \A j \in idx : i >= j
             IN  SubSeq(t, lo, hi)

\* text.partition(marker)[0]: the text before the first marker
BeforeMarker(t, marker) ==
    LET idx == {i \in DOMAIN t : t[i] = marker}
    IN  IF idx = {} THEN t
        ELSE SubSeq(t, 1, (CHOOSE i \in idx : \A j \in idx : i <= j) - 1)

\* ----------------------------------------------------------- detail markup
FieldNames == {"idol", "rarity", "attribute", "i_unit", "i_subunit", "i_year"}

\* a <td>: its text, and the text of its <span> when it has one
Td(text) == [span |-> FALSE, stext |-> <<>>, text |-> text]
TdSpan(stext) == [span |-> TRUE, stext |-> stext, text |-> stext]

\* A detail page: whether a class="top-item" region exists, the hrefs of its
\* anchors in order (None: an anchor without href), and for each data-field
\* present its <td> cells.
DetailPage(top, links, has, cells) ==
    [top |-> top, links |-> links, has |-> has, cells |-> cells]

NoCells == [f \in FieldNames |-> <<>>]
NoSoup == DetailPage(FALSE, <<>>, {}, NoCells)

CardCells(rarity) ==
    [f \in FieldNames |->
        CASE f = "idol" -> <<Td(<<"Idol">>), TdSpan(<<" ", "Honoka", "Open idol", "x">>)>>
          [] f = "rarity" -> <<Td(<<"Rarity">>), Td(<<rarity>>)>>
          [] f = "attribute" -> <<Td(<<"Attribute">>), Td(<<"Smile", " ">>)>>
          [] f = "i_unit" -> <<Td(<<"Unit">>), Td(<<"Muse">>)>>
          [] f = "i_subunit" -> <<Td(<<"Subunit">>), Td(<<"Printemps">>)>>
          [] OTHER -> <<Td(<<"Year">>), Td(<<"Second">>)>>]

CardPage(n, i, rarity) == DetailPage(TRUE, <<n, i>>, FieldNames, CardCells(rarity))
StillPage(links) == DetailPage(TRUE, links, {}, NoCells)

CardPageLo == CardPage(CNormLo, CIdolLo, "UR")
CardPageHi == CardPage(CNormHi, CIdolHi, "UR")
CardPageBad == DetailPage(FALSE, <<>>, FieldNames, CardCells("UR"))
StillPageLo == StillPage(<<SLo>>)
StillPageHi == StillPage(<<SHi>>)
CardPageHiB == CardPage(CNormHiB, CIdolHiB, "UR")
StillPageHiB == StillPage(<<SHiB>>)
StillPageNoHref == StillPage(<<None>>)
StillPageBad == StillPage(<<>>)

\* ------------------------------------------------------------------- items
Card(key, idol, rarity, attribute, unit, subunit, year, normal_url, idolized_url) ==
    [kind |-> "Card", key |-> key, idol |-> idol, rarity |-> rarity,
     attribute |-> attribute, unit |-> unit, subunit |-> subunit, year |-> year,
     normal_url |-> normal_url, idolized_url |-> idolized_url]

Still(key, url) == [kind |-> "Still", key |-> key, url |-> url]

get_urls(item) ==
    IF item.kind = "Card" THEN <<item.normal_url, item.idolized_url>>
    ELSE <<item.url>>

set_url(item, i, url) ==
    IF item.kind = "Card"
    THEN IF i = 0 THEN [item EXCEPT !.normal_url = url]
         ELSE [item EXCEPT !.idolized_url = url]
    ELSE [item EXCEPT !.url = url]

\* pattern.search(None) raises TypeError
is_double_sized_raises(item) == ~IsStr(get_urls(item)[1])

is_double_sized(item) == HasDoubleSizeMarker(get_urls(item)[1])

needs_update_ignoring_size(item) ==
    IF item.kind = "Card" THEN item.rarity # <<"Rare">> ELSE TRUE

needs_update(item) ==
    IF item.kind = "Card"
    THEN ~is_double_sized(item) /\ item.rarity # <<"Rare">>
    ELSE ~is_double_sized(item)

\* str.replace(old, new) on a file name whose words are tokens
Replace(t, old, new) == [i \in DOMAIN t |-> IF t[i] = old THEN new ELSE t[i]]

RECURSIVE KeyStr(_)
\* f"{self.key}": the decimal digits of the key
KeyStr(k) ==
    IF k < 10 THEN <<ToString(k)>> ELSE KeyStr(k \div 10) \o <<ToString(k % 10)>>

\* Path(url).suffix raises TypeError on None
get_paths_raises(item) == ~IsStr(get_urls(item)[1])

get_paths_without_key(item) ==
    IF item.kind = "Card"
    THEN LET file_name == item.unit \o <<"_">> \o item.idol
             normal_path == file_name \o <<"_", "Normal", item.normal_url.suffix>>
             idolized_path == Replace(normal_path, "Normal", "Idolized")
         IN  << <<"CARD_RESULTS_DIR">> \o normal_path,
                <<"CARD_RESULTS_DIR">> \o idolized_path >>
    ELSE << <<"STILL_RESULTS_DIR">> \o <<"Still", item.url.suffix>> >>

\* a path is its directory followed by the words, digits and "_" of the file
\* name
get_paths(item) ==
    IF item.kind = "Card"
    THEN LET file_name == KeyStr(item.key) \o <<"_">> \o item.unit \o <<"_">> \o item.idol
             normal_path == file_name \o <<"_", "Normal", item.normal_url.suffix>>
             idolized_path == Replace(normal_path, "Normal", "Idolized")
         IN  << <<"CARD_RESULTS_DIR">> \o normal_path,
                <<"CARD_RESULTS_DIR">> \o idolized_path >>
    ELSE << <<"STILL_RESULTS_DIR">>
               \o KeyStr(item.key) \o <<"_", "Still", item.url.suffix>> >>

\* ---------------------------------------------------------- detail parsers
Ok(v) == [ok |-> TRUE, exc |-> "", val |-> v]
Raise(e, dflt) == [ok |-> FALSE, exc |-> e, val |-> dflt]

\* CardParser.get_item_image_urls
get_item_image_urls(soup) ==
    IF ~(soup.top /\ Len(soup.links) > 0 /\ IsStr(soup.links[1]))
    THEN Raise("ItemParsingException", <<>>)
    ELSE IF Len(soup.links) < 2 THEN Raise("IndexError", <<>>)
    ELSE IF ~IsStr(soup.links[2]) THEN Raise("ItemParsingException", <<>>)
    ELSE Ok(<<soup.links[1], soup.links[2]>>)

\* CardParser.get_data_field: the second <td> of the element tagged with field
get_data_field(soup, field) ==
    IF field \notin soup.has THEN Raise("ItemParsingException", Td(<<>>))
    ELSE IF Len(soup.cells[field]) < 2 THEN Raise("IndexError", Td(<<>>))
    ELSE Ok(soup.cells[field][2])

\* CardParser.get_item_info
get_item_info(soup, info) ==
    LET data == get_data_field(soup, info)
    IN  IF ~data.ok THEN Raise(data.exc, <<>>)
        ELSE IF info = "idol" /\ data.val.span
             THEN Ok(Strip(BeforeMarker(data.val.stext, "Open idol")))
             ELSE Ok(Strip(data.val.text))

CardInfoOrder == <<"idol", "rarity", "attribute", "i_unit", "i_subunit", "i_year">>

\* CardParser.create_item
CardParser_create_item(soup, num) ==
    LET urls == get_item_image_urls(soup)
        info == [i \in 1..6 |-> get_item_info(soup, CardInfoOrder[i])]
        bad == {i \in 1..6 : ~info[i].ok}
    IN  IF ~urls.ok THEN Raise(urls.exc, Still(num, None))
        ELSE IF bad # {}
             THEN Raise(info[CHOOSE i \in bad : \A j \in bad : i <= j].exc, Still(num, None))
             ELSE Ok(Card(num, info[1].val, info[2].val, info[3].val, info[4].val,
                          info[5].val, info[6].val, urls.val[1], urls.val[2]))

\* StillParser.get_item_image_url: the first anchor's href, whatever it is
get_item_image_url(soup) ==
    IF soup.top /\ Len(soup.links) > 0 THEN Ok(soup.links[1])
    ELSE Raise("ItemParsingException", None)

\* StillParser.create_item
StillParser_create_item(soup, num) ==
    LET url == get_item_image_url(soup)
    IN  IF url.ok THEN Ok(Still(num, url.val)) ELSE Raise(url.exc, Still(num, None))

create_item(kind, soup, num) ==
    IF kind = "Card" THEN CardParser_create_item(soup, num)
    ELSE StillParser_create_item(soup, num)

get_item_from_stale_soup(kind, slot, fetched, num) ==
    [soup |-> fetched, ret |-> create_item(kind, slot, num)]

\* Parser.get_item, from the moment the page has been fetched: it is stored in
\* self.soup (slot: what self.soup held), and create_item reads self.soup
get_item(kind, slot, fetched, num) ==
    LET assigned == fetched
    IN  [soup |-> assigned, ret |-> create_item(kind, assigned, num)]

\* -------------------------------------------------------------- list markup
\* A segment of a link path: a run of digits (with its value) or a word.
Digits(n) == [digits |-> TRUE, n |-> n]
Word == [digits |-> FALSE, n |-> 0]

\* An anchor's href: a string made of directory segments, or absent.
Href(dirs) == [str |-> TRUE, dirs |-> dirs]
NoHref == [str |-> FALSE, dirs |-> <<>>]

\* A class="top-item" container of a list page: whether it holds an <a>, and
\* that anchor's href.
Container(a, href) == [a |-> a, href |-> href]
ItemLink(k) == Container(TRUE, Href(<<Word, Digits(k), Word>>))
NoLink == Container(FALSE, NoHref)

\* re.compile(r"/([0-9]+)/").search(href): the first all-digit directory
KeyMatch(href) ==
    LET idx == {i \in DOMAIN href.dirs : href.dirs[i].digits}
    IN  IF idx = {} THEN [found |-> FALSE, n |-> 0]
        ELSE [found |-> TRUE,
              n |-> href.dirs[CHOOSE i \in idx : \A j \in idx : i <= j].n]

RECURSIVE PageNums(_)
\* the for loop of ListParser.get_page: containers without a key link are skipped
PageNums(items) ==
    IF items = <<>> THEN <<>>
    ELSE LET item == Head(items)
             m == KeyMatch(item.href)
         IN  IF item.a /\ item.href.str /\ m.found
             THEN <<m.n>> \o PageNums(Tail(items))
             ELSE PageNums(Tail(items))

get_page_unsorted(page) ==
    LET nums == PageNums(page)
    IN  IF nums # <<>> THEN Ok(nums) ELSE Raise("ListParsingException", <<>>)

\* ListParser.get_page on the markup of one list page
get_page(page) ==
    LET nums == PageNums(page)
    IN  IF nums # <<>> THEN Ok(SortDesc(nums)) ELSE Raise("ListParsingException", <<>>)

\* The pagination control of page 1: absent, or the numbers its links carry
\* in "=<n>" (0: a link without one).
Pagination(present, links) == [present |-> present, links |-> links]

\* ListParser.get_num_pages: the number in the last but one link
get_num_pages(pg) ==
    IF ~(pg.present /\ Len(pg.links) > 0) THEN Raise("ListParsingException", 0)
    ELSE IF Len(pg.links) < 2 THEN Raise("IndexError", 0)
    ELSE IF pg.links[Len(pg.links) - 1] = 0 THEN Raise("ListParsingException", 0)
    ELSE Ok(pg.links[Len(pg.links) - 1])

\* A remote listing: the pagination control and the list pages.
Listing(pagination, pages) == [pagination |-> pagination, pages |-> pages]

\* the markup served for list page num (an empty page past the last one)
ListPageMarkup(l, num) == IF num \in DOMAIN l.pages THEN l.pages[num] ELSE <<>>

\* one key per page, newest first
ListingPaged ==
    Listing(Pagination(TRUE, <<1, MaxKey, 0>>),
            [p \in 1..MaxKey |-> <<ItemLink(MaxKey + 1 - p)>>])

\* the same once the site no longer advertises the oldest key
ListingPagedShort ==
    Listing(Pagination(TRUE, <<1, MaxKey - 1, 0>>),
            [p \in 1..(MaxKey - 1) |-> <<ItemLink(MaxKey + 1 - p)>>])

\* two keys on one page, oldest first, with a container that has no link and
\* key 1 advertised twice
ListingSingle ==
    Listing(Pagination(TRUE, <<1, 0>>),
            << <<ItemLink(1), ItemLink(2), NoLink, ItemLink(1)>> >>)

\* a second page without any key link
ListingBadPage ==
    Listing(Pagination(TRUE, <<1, 2, 0>>),
            << [i \in 1..MaxKey |-> ItemLink(i)], <<NoLink>> >>)

\* a page 1 without pagination control
ListingNoPagination ==
    Listing(Pagination(FALSE, <<>>), << [i \in 1..MaxKey |-> ItemLink(i)] >>)

Listings == {ListingPaged, ListingSingle, ListingBadPage, ListingNoPagination}

\* the detail page of an item with its first images, with their double-size
\* versions, and with revised double-size images
LoPage(kind) == IF kind = "Card" THEN CardPageLo ELSE StillPageLo
UpgradedPage(kind) == IF kind = "Card" THEN CardPageHi ELSE StillPageHi
RevisedPage(kind) == IF kind = "Card" THEN CardPageHiB ELSE StillPageHiB

\* what the site serves for an item after it republishes page p
Republished(kind, p) ==
    IF p = LoPage(kind) THEN UpgradedPage(kind)
    ELSE IF p = UpgradedPage(kind) THEN RevisedPage(kind)
    ELSE p

\* ------------------------------------------------------------------- state
VARIABLES
    img_type,       \* Downloader.img_type: "Card" or "Still"
    listing,        \* the remote listing
    detail,         \* the remote detail page of each key
    objs,           \* Downloader.objs: the catalog, a dict in insertion order
    updateables,    \* Downloader.updateables: the pending-upgrade list
    saved,          \* the catalog file written by json_utils.dump_to_file
    files,          \* the asset files on disk: path and the URL whose bytes it holds
    list_session,   \* list_parser.session: "None", "open" or "closed"
    item_session,   \* item_parser.session
    soup,           \* item_parser.soup
    pc,             \* where the awaiting update() or download() coroutine stands
    pages,          \* get_cards_from_parser: the gathered list pages
    page_idx,       \* get_cards_from_parser: the page whose batch is awaited
    recon_idx,      \* update: the position in objs.items() being reconciled
    tasks,          \* the tasks asyncio.gather started that have not been reaped
    run,            \* the current (or last) call: what it is and how it ended
    snap,           \* the catalog file when the current (or last) update() started,
                    \* the asset files when the current (or last) download() started
    dl,             \* the current (or last) download(): the (key, slot) pairs it
                    \* wrote, the keys whose failure it caught, and whether it
                    \* follows a download() without failure
    count,          \* calls, and republished pages and failed responses, so far
    fn              \* a single call of a parser or item method: its name, its
                    \* argument and, once it has returned, its result

downloader_vars ==
    <<img_type, listing, detail, objs, updateables, saved, files, list_session,
      item_session, soup, pc, pages, page_idx, recon_idx, tasks, run, snap, dl, count>>

vars == <<downloader_vars, fn>>

\* ------------------------------------------------------------ the catalog
Entry(k, item) == [key |-> k, item |-> item]
CatKeys(o) == {o[i].key : i \in DOMAIN o}
IndexOf(o, k) == CHOOSE i \in DOMAIN o : o[i].key = k
ItemOf(o, k) == o[IndexOf(o, k)].item

DictSetFresh(o, k, item) == <<Entry(k, item)>>

\* self.objs[n] = obj
DictSet(o, k, item) ==
    IF k \in CatKeys(o) THEN [o EXCEPT ![IndexOf(o, k)] = Entry(k, item)]
    ELSE Append(o, Entry(k, item))

SortedAscending(o) ==
    LET ks == SortDesc([i \in DOMAIN o |-> o[i].key])
    IN  [i \in DOMAIN o |-> Entry(ks[Len(o) + 1 - i], ItemOf(o, ks[Len(o) + 1 - i]))]

\* dict(sorted(self.objs.items(), reverse=True))
SortedItems(o) ==
    LET ks == SortDesc([i \in DOMAIN o |-> o[i].key])
    IN  [i \in DOMAIN o |-> Entry(ks[i], ItemOf(o, ks[i]))]

\* json_utils.dump_to_file(json_utils.to_json(objs), path, img_type): the file
\* holds the kind and the full field set of each item, in the mapping's order
NoFile == [kind |-> "", items |-> <<>>, written |-> FALSE]
dump_to_file(o, kind) == [kind |-> kind, items |-> o, written |-> TRUE]

\* ------------------------------------------------------------------ files
Exists(fs, path) == \E f \in fs : f.path = path
FileWrite(fs, path, url) == {f \in fs : f.path # path} \cup {[path |-> path, data |-> url]}

\* ------------------------------------------------------------------ tasks
\* kind: "page" (list_parser.get_page), "item" (add_item_to_object_list) or
\* "dl" (get_images); arg: the page number or the item key; st: "pending",
\* "done" or "failed"; res: the keys a page task returned; slot: the URL slot
\* a download task is writing; caught: whether get_images caught an exception;
\* awaited: whether the gather that started the task is still awaited.
Task(kind, arg, st, exc, res, slot) ==
    [kind |-> kind, arg |-> arg, st |-> st, exc |-> exc, res |-> res, slot |-> slot,
     caught |-> FALSE, awaited |-> TRUE]

Awaited == {i \in DOMAIN tasks : tasks[i].awaited}
Pending == {i \in DOMAIN tasks : tasks[i].st = "pending"}

RECURSIVE SelectSeq2(_, _)
SelectSeq2(s, keep) ==
    IF s = <<>> THEN <<>>
    ELSE IF keep[1] THEN <<Head(s)>> \o SelectSeq2(Tail(s), Tail(keep))
    ELSE SelectSeq2(Tail(s), Tail(keep))

\* the tasks left running when the awaiting coroutine leaves its gather:
\* gather does not cancel them
Orphans(ts) ==
    LET left == SelectSeq2(ts, [i \in DOMAIN ts |-> ts[i].st = "pending"])
    IN  [i \in DOMAIN left |-> [left[i] EXCEPT !.awaited = FALSE]]

GatherNeverRaises(ts, aw) == FALSE

\* asyncio.gather(*tasks, return_exceptions=False): the first exception of a
\* task is propagated to the awaiting coroutine
GatherRaises(ts, aw) == \E i \in aw : ts[i].st = "failed"

GatherReturnsOnFirst(ts, aw) == \E i \in aw : ts[i].st = "done"

\* asyncio.gather returns when every task has ended (and none has raised:
\* GatherRaises)
GatherReturns(ts, aw) == \A i \in aw : ts[i].st # "pending"

FirstFailed(ts, aw) ==
    LET bad == {i \in aw : ts[i].st = "failed"}
    IN  ts[CHOOSE i \in bad : \A j \in bad : i <= j].exc

\* ------------------------------------------------------- small operations
set_session_ignored(current, session) == current

\* Parser.set_session: self.session = session
set_session(current, session) == session

\* Parser.get_html: without a session set, NoHTTPSessionException
get_html_raises(session) == session = "None"

\* a task that fetches through a parser: it fails at once without a session
FetchTask(kind, arg, session) ==
    IF get_html_raises(session)
    THEN Task(kind, arg, "failed", "NoHTTPSessionException", <<>>, 0)
    ELSE Task(kind, arg, "pending", "", <<>>, 0)

RECURSIVE SetUrlsUpTo(_, _, _)
SetUrlsUpTo(item, updated, n) ==
    IF n = 0 THEN item
    ELSE set_url(SetUrlsUpTo(item, updated, n - 1), n - 1, get_urls(updated)[n])

update_primary_url_only(item, updated) == SetUrlsUpTo(item, updated, 1)

\* update_if_needed: for i in range(len(item.get_urls())): item.set_url(i, ...)
update_urls(item, updated) == SetUrlsUpTo(item, updated, Len(get_urls(item)))

\* update_if_needed: the key is appended when the primary URLs differ
update_updateables(ups, item, updated) ==
    IF get_urls(item)[1] # get_urls(updated)[1] THEN Append(ups, item.key) ELSE ups

create_image_file_if_missing(fs, ups, path, key) == ~Exists(fs, path)

\* create_image_file: not Path(path).exists() or item.key in self.updateables
create_image_file_writes(fs, ups, path, key) ==
    ~Exists(fs, path) \/ key \in Range(ups)

\* download_images: the first slot from `from` on that create_image_file
\* writes (0: none); the slots before it are skipped without suspending
NextSlot(item, from, fs, ups) ==
    LET paths == get_paths(item)
        ss == {s \in from..Len(paths) : create_image_file_writes(fs, ups, paths[s], item.key)}
    IN  IF ss = {} THEN 0 ELSE CHOOSE s \in ss : \A t \in ss : s <= t

get_images_reraises(exc) == FALSE

\* get_images: except Exception
get_images_catches(exc) == TRUE

\* get_images up to its first suspension
NewDlTask(item, fs, ups) ==
    IF get_paths_raises(item) THEN Task("dl", item.key, "failed", "TypeError", <<>>, 0)
    ELSE LET s == NextSlot(item, 1, fs, ups)
         IN  IF s = 0 THEN Task("dl", item.key, "done", "", <<>>, Len(get_paths(item)) + 1)
             ELSE Task("dl", item.key, "pending", "", <<>>, s)

\* update: the first item from position i on whose needs_update() is true or
\* raises (0: none)
ReconNext(o, i) ==
    LET js == {j \in i..Len(o) : is_double_sized_raises(o[j].item) \/ needs_update(o[j].item)}
    IN  IF js = {} THEN 0 ELSE CHOOSE j \in js : \A t \in js : j <= t

\* get_cards_from_parser: the keys of a page that get a task
NewItems(page, o) ==
    LET New(k) == k \notin CatKeys(o)
    IN  SelectSeq(page, New)

\* the first page from position i on with a task to await (0: none); a
\* gather of no task returns without suspending
NextBatch(pgs, i, o) ==
    LET js == {j \in i..Len(pgs) : NewItems(pgs[j], o) # <<>>}
    IN  IF js = {} THEN 0 ELSE CHOOSE j \in js : \A t \in js : j <= t

Raised(r, exc, phase) == [r EXCEPT !.result = "raised", !.exc = exc, !.phase = phase]

\* a finished task stays in its gather until the awaiting coroutine leaves
\* it; an orphan is dropped when it ends
Settle(ts, i, t) ==
    IF ts[i].awaited THEN [ts EXCEPT ![i] = t]
    ELSE SelectSeq2(ts, [j \in DOMAIN ts |-> j # i])

\* --------------------------------------------------------------- fragments
\* update, from position i of its loop over objs.items() (o: the catalog, sess:
\* item_parser.session, r: the run): up to the next fetch, the exception or
\* update_json_file
EnterRecon(o, i, sess, r) ==
    LET j == ReconNext(o, i)
    IN  IF j = 0
        THEN /\ pc' = "idle"
             /\ recon_idx' = 0
             /\ item_session' = sess
             /\ objs' = SortedItems(o)
             /\ saved' = dump_to_file(SortedItems(o), img_type)
             /\ run' = [r EXCEPT !.result = "ok", !.saves = @ + 1, !.phase = "saved"]
        ELSE IF is_double_sized_raises(o[j].item)
        THEN /\ pc' = "idle"
             /\ recon_idx' = 0
             /\ item_session' = sess
             /\ objs' = o
             /\ saved' = saved
             /\ run' = Raised(r, "TypeError", "reconciliation")
        ELSE /\ pc' = "recon"
             /\ recon_idx' = j
             /\ item_session' = set_session(sess, "open")
             /\ objs' = o
             /\ saved' = saved
             /\ run' = [r EXCEPT !.phase = "reconciliation"]

\* get_cards_from_parser, from page i of its loop over the pages (ts: the tasks
\* still running): up to the next gather that has a task, or on into update
EnterItems(pgs, i, ts, r) ==
    LET j == NextBatch(pgs, i, objs)
    IN  IF j # 0
        THEN /\ pc' = "items"
             /\ page_idx' = j
             /\ item_session' = set_session(item_session, "open")
             /\ tasks' = ts \o [n \in DOMAIN NewItems(pgs[j], objs) |->
                                   FetchTask("item", NewItems(pgs[j], objs)[n],
                                             set_session(item_session, "open"))]
             /\ run' = r
             /\ UNCHANGED <<objs, saved, recon_idx>>
        ELSE /\ page_idx' = 0
             /\ tasks' = ts
             /\ EnterRecon(objs, 1, "closed", r)

\* -------------------------------------------------------------------- Init
NoCall == [op |-> "none", arg |-> <<>>, ret |-> <<>>, done |-> FALSE]

NoDl == [writes |-> {}, caught |-> {}, again |-> FALSE]

\* changed: the keys whose primary URL the reconciliation of the call changed
NoRun == [op |-> "none", result |-> "none", exc |-> "", phase |-> "", saves |-> 0,
          fetch_failed |-> FALSE, recon_failed |-> FALSE, changed |-> {}]


InitPages(kind) ==
    IF kind = "Card" THEN {CardPageLo, CardPageHi, CardPageBad}
    ELSE {StillPageLo, StillPageHi, StillPageNoHref, StillPageBad}

\* Downloader.__init__, Parser.__init__, and a remote site
Init ==
    /\ img_type \in {"Card", "Still"}
    /\ listing \in Listings
    /\ \E p \in InitPages(img_type) :
          detail = [k \in Keys |-> IF k = 1 THEN p ELSE LoPage(img_type)]
    /\ objs = <<>>
    /\ updateables = <<>>
    /\ saved = NoFile
    /\ files = {}
    /\ list_session = "None"
    /\ item_session = "None"
    /\ soup = NoSoup
    /\ pc = "idle"
    /\ pages = <<>>
    /\ page_idx = 0
    /\ recon_idx = 0
    /\ tasks = <<>>
    /\ run = NoRun
    /\ snap = [saved |-> NoFile, files |-> {}]
    /\ dl = NoDl
    /\ count = [calls |-> 0, events |-> 0]
    /\ fn = NoCall

\* ----------------------------------------------------------------- actions
\* the detail fetches in flight
FetchingDetail(k) ==
    \/ \E i \in Pending : tasks[i].kind = "item" /\ tasks[i].arg = k
    \/ pc = "recon" /\ objs[recon_idx].key = k

\* The remote site republishes the detail page of key k.  A change can show
\* only in a later response for k, so it is taken while a fetch of k is in
\* flight or once k is catalogued.
RemoteChange(k, p) ==
    /\ count.events < MaxEvents
    /\ FetchingDetail(k) \/ k \in CatKeys(objs)
    /\ p # detail[k]
    /\ detail' = [detail EXCEPT ![k] = p]
    /\ count' = [count EXCEPT !.events = @ + 1]
    /\ UNCHANGED <<fn, img_type, listing, objs, updateables, saved, files, list_session,
                   item_session, soup, pc, pages, page_idx, recon_idx, tasks, run, snap,
                   dl>>

\* The remote site stops advertising the oldest key.  It is taken between two
\* calls, once the key is catalogued: the listing is read only by update().
RemoteDelist ==
    /\ count.events < MaxEvents
    /\ pc = "idle"
    /\ listing = ListingPaged
    /\ 1 \in CatKeys(objs)
    /\ listing' = ListingPagedShort
    /\ count' = [count EXCEPT !.events = @ + 1]
    /\ UNCHANGED <<fn, img_type, detail, objs, updateables, saved, files, list_session,
                   item_session, soup, pc, pages, page_idx, recon_idx, tasks, run, snap,
                   dl>>

\* update() up to the fetch of get_num_pages
StartUpdate ==
    /\ pc = "idle"
    /\ tasks = <<>>
    /\ count.calls < MaxCalls
    /\ pc' = "numpages"
    /\ list_session' = set_session(list_session, "open")
    /\ run' = [NoRun EXCEPT !.op = "update", !.result = "running", !.phase = "discovery"]
    /\ snap' = [saved |-> saved, files |-> {}]
    /\ dl' = NoDl
    /\ count' = [count EXCEPT !.calls = @ + 1]
    /\ UNCHANGED <<fn, img_type, listing, detail, objs, updateables, saved, files,
                   item_session, soup, pages, page_idx, recon_idx, tasks>>

\* get_num_pages returns or raises; the page requests are gathered
NumPagesDone ==
    /\ pc = "numpages"
    /\ LET r == IF get_html_raises(list_session) THEN Raise("NoHTTPSessionException", 0)
                 ELSE get_num_pages(listing.pagination)
        IN  IF r.ok
            THEN /\ pc' = "pages"
                 /\ tasks' = [n \in 1..r.val |-> FetchTask("page", n, list_session)]
                 /\ UNCHANGED <<list_session, run>>
            ELSE /\ pc' = "idle"
                 /\ list_session' = "closed"
                 /\ run' = [Raised(run, r.exc, "discovery") EXCEPT !.fetch_failed = TRUE]
                 /\ UNCHANGED tasks
    /\ UNCHANGED <<fn, img_type, listing, detail, objs, updateables, saved, files,
                   item_session, soup, pages, page_idx, recon_idx, snap, dl, count>>

\* list_parser.get_page(n) returns or raises
PageTaskDone(i) ==
    /\ i \in Pending
    /\ tasks[i].kind = "page"
    /\ LET r == get_page(ListPageMarkup(listing, tasks[i].arg))
            t == [tasks[i] EXCEPT !.st = IF r.ok THEN "done" ELSE "failed",
                                  !.exc = r.exc, !.res = r.val]
        IN  /\ tasks' = Settle(tasks, i, t)
            /\ run' = IF ~r.ok /\ tasks[i].awaited
                      THEN [run EXCEPT !.fetch_failed = TRUE] ELSE run
    /\ UNCHANGED <<fn, img_type, listing, detail, objs, updateables, saved, files,
                   list_session, item_session, soup, pc, pages, page_idx, recon_idx,
                   snap, dl, count>>

\* add_item_to_object_list(key): get_item returns and the item is stored, or
\* get_item raises
ItemTaskDone(i) ==
    /\ i \in Pending
    /\ tasks[i].kind = "item"
    /\ LET key == tasks[i].arg
            got == get_item(img_type, soup, detail[key], key)
            r == got.ret
            t == [tasks[i] EXCEPT !.st = IF r.ok THEN "done" ELSE "failed", !.exc = r.exc]
        IN  /\ soup' = got.soup
            /\ objs' = IF r.ok THEN DictSet(objs, r.val.key, r.val) ELSE objs
            /\ tasks' = Settle(tasks, i, t)
            /\ run' = IF ~r.ok /\ tasks[i].awaited
                      THEN [run EXCEPT !.fetch_failed = TRUE] ELSE run
    /\ UNCHANGED <<fn, img_type, listing, detail, updateables, saved, files, list_session,
                   item_session, pc, pages, page_idx, recon_idx, snap, dl, count>>

\* the awaited gather propagates a task's exception: it leaves the session's
\* scope and update() or download() raises
GatherRaise ==
    /\ pc \in {"pages", "items", "dl"}
    /\ GatherRaises(tasks, Awaited)
    /\ pc' = "idle"
    /\ tasks' = Orphans(tasks)
    /\ run' = Raised(run, FirstFailed(tasks, Awaited),
                     IF pc = "dl" THEN "download" ELSE "discovery")
    /\ list_session' = IF pc = "pages" THEN "closed" ELSE list_session
    /\ item_session' = IF pc = "items" THEN "closed" ELSE item_session
    /\ UNCHANGED <<fn, img_type, listing, detail, objs, updateables, saved, files, soup,
                   pages, page_idx, recon_idx, snap, dl, count>>

\* the gather of the page requests returns: on to the item batches
GatherReturnPages ==
    /\ pc = "pages"
    /\ GatherReturns(tasks, Awaited)
    /\ ~GatherRaises(tasks, Awaited)
    /\ list_session' = "closed"
    /\ pages' = [n \in 1..Cardinality(Awaited) |->
                    tasks[CHOOSE i \in Awaited : tasks[i].arg = n].res]
    /\ EnterItems(pages', 1, Orphans(tasks), run)
    /\ UNCHANGED <<fn, img_type, listing, detail, updateables, files, soup, snap, dl, count>>

\* the gather of a page's item tasks returns: on to the next page
GatherReturnItems ==
    /\ pc = "items"
    /\ GatherReturns(tasks, Awaited)
    /\ ~GatherRaises(tasks, Awaited)
    /\ EnterItems(pages, page_idx + 1, Orphans(tasks), run)
    /\ UNCHANGED <<fn, img_type, listing, detail, updateables, files, list_session, soup,
                   pages, snap, dl, count>>

\* update_if_needed(item): get_item returns and the item's URLs are set, or
\* get_item raises and so does update()
ReconFetchDone ==
    /\ pc = "recon"
    /\ \E net \in (IF count.events < MaxEvents THEN BOOLEAN ELSE {TRUE}) :
        LET item == objs[recon_idx].item
            got == get_item(img_type, soup, detail[item.key], item.key)
            fetched == ~get_html_raises(item_session) /\ net
            r == IF get_html_raises(item_session)
                 THEN Raise("NoHTTPSessionException", Still(item.key, None))
                 ELSE IF net THEN got.ret
                 ELSE Raise("ClientError", Still(item.key, None))
        IN  /\ soup' = IF fetched THEN got.soup ELSE soup
            /\ count' = IF net THEN count ELSE [count EXCEPT !.events = @ + 1]
            /\ IF r.ok
               THEN /\ updateables' = update_updateables(updateables, item, r.val)
                    /\ EnterRecon([objs EXCEPT ![recon_idx].item = update_urls(item, r.val)],
                                  recon_idx + 1, "closed",
                                  IF get_urls(update_urls(item, r.val))[1] # get_urls(item)[1]
                                  THEN [run EXCEPT !.changed = @ \cup {item.key}]
                                  ELSE run)
               ELSE /\ pc' = "idle"
                    /\ recon_idx' = 0
                    /\ item_session' = "closed"
                    /\ run' = [Raised(run, r.exc, "reconciliation")
                                  EXCEPT !.recon_failed = TRUE]
                    /\ UNCHANGED <<objs, saved, updateables>>
    /\ UNCHANGED <<fn, img_type, listing, detail, files, list_session, pages, page_idx,
                   tasks, snap, dl>>

\* download() up to its gather
StartDownload ==
    /\ pc = "idle"
    /\ tasks = <<>>
    /\ count.calls < MaxCalls
    /\ dl' = [writes |-> {}, caught |-> {},
              again |-> run.op = "download" /\ run.result = "ok" /\ dl.caught = {}]
    /\ snap' = [saved |-> NoFile, files |-> files]
    /\ count' = [count EXCEPT !.calls = @ + 1]
    /\ tasks' = [n \in DOMAIN objs |-> NewDlTask(objs[n].item, files, updateables)]
    /\ pc' = IF objs = <<>> THEN "idle" ELSE "dl"
    /\ run' = [NoRun EXCEPT !.op = "download", !.phase = "download",
                            !.result = IF objs = <<>> THEN "ok" ELSE "running"]
    /\ UNCHANGED <<fn, img_type, listing, detail, objs, updateables, saved, files,
                   list_session, item_session, soup, pages, page_idx, recon_idx>>

\* write_to_file returns with the file written, or raises
DlFetchDone(i) ==
    /\ i \in Pending
    /\ tasks[i].kind = "dl"
    /\ \E net \in (IF count.events < MaxEvents THEN BOOLEAN ELSE {TRUE}) :
        LET item == ItemOf(objs, tasks[i].arg)
            s == tasks[i].slot
            fs == IF net THEN FileWrite(files, get_paths(item)[s], get_urls(item)[s])
                  ELSE files
            next == NextSlot(item, s + 1, fs, updateables)
            t == IF net
                 THEN IF next = 0
                      THEN [tasks[i] EXCEPT !.st = "done", !.slot = Len(get_paths(item)) + 1]
                      ELSE [tasks[i] EXCEPT !.slot = next]
                 ELSE IF get_images_catches("ClientError")
                      THEN [tasks[i] EXCEPT !.st = "done", !.caught = TRUE]
                      ELSE [tasks[i] EXCEPT !.st = "failed", !.exc = "ClientError"]
        IN  /\ files' = fs
            /\ count' = IF net THEN count ELSE [count EXCEPT !.events = @ + 1]
            /\ tasks' = Settle(tasks, i, t)
            /\ dl' = IF net THEN [dl EXCEPT !.writes = @ \cup {<<item.key, s>>}]
                     ELSE [dl EXCEPT !.caught = @ \cup {item.key}]
    /\ UNCHANGED <<fn, img_type, listing, detail, objs, updateables, saved, list_session,
                   item_session, soup, pc, pages, page_idx, recon_idx, run, snap>>

\* the gather of the download tasks returns
GatherReturnDl ==
    /\ pc = "dl"
    /\ GatherReturns(tasks, Awaited)
    /\ ~GatherRaises(tasks, Awaited)
    /\ pc' = "idle"
    /\ tasks' = Orphans(tasks)
    /\ run' = [run EXCEPT !.result = "ok"]
    /\ UNCHANGED <<fn, img_type, listing, detail, objs, updateables, saved, files,
                   list_session, item_session, soup, pages, page_idx, recon_idx, snap,
                   dl, count>>

\* the event loop is shut down after a call raised: the tasks its gather left
\* running are cancelled
CancelOrphans ==
    /\ pc = "idle"
    /\ tasks # <<>>
    /\ tasks' = <<>>
    /\ UNCHANGED <<fn, img_type, listing, detail, objs, updateables, saved, files,
                   list_session, item_session, soup, pc, pages, page_idx, recon_idx,
                   run, snap, dl, count>>

Next ==
    \/ \E k \in Keys : RemoteChange(k, Republished(img_type, detail[k]))
    \/ RemoteDelist
    \/ StartUpdate
    \/ NumPagesDone
    \/ \E i \in DOMAIN tasks : PageTaskDone(i)
    \/ \E i \in DOMAIN tasks : ItemTaskDone(i)
    \/ GatherRaise
    \/ GatherReturnPages
    \/ GatherReturnItems
    \/ ReconFetchDone
    \/ StartDownload
    \/ \E i \in DOMAIN tasks : DlFetchDone(i)
    \/ GatherReturnDl
    \/ CancelOrphans

Spec == Init /\ [][Next]_vars

\* ------------------------------------------------- single calls of methods
\* A second specification: one call of a method of an item or of a parser,
\* on an argument drawn from a bounded set, on a Downloader that stays idle.
Call(op, arg) == [op |-> op, arg |-> arg, ret |-> <<>>, done |-> FALSE]
Returned(c, ret) == [c EXCEPT !.ret = ret, !.done = TRUE]

Rarities == {<<"Rare">>, <<"SR">>, <<"UR">>}

CardWith(key, unit, idol, rarity, urls) ==
    Card(key, idol, rarity, <<"Smile">>, unit, <<"Printemps">>, <<"Second">>,
         urls[1], urls[2])

\* items of every rarity with every mix of low-res and high-res URLs
NeedsUpdateArgs ==
    {CardWith(1, <<"Muse">>, <<"Honoka">>, r, <<n, i>>) :
        r \in Rarities, n \in {CNormLo, CNormHi}, i \in {CIdolLo, CIdolHi}}
    \cup {Still(1, u) : u \in {SLo, SHi}}

\* item containers: with a key link, without an anchor, with an anchor that
\* has no href, with an href that has no key, with an href of two numbers
ContainerArgs ==
    {ItemLink(1), ItemLink(2), NoLink, Container(TRUE, NoHref),
     Container(TRUE, Href(<<Word>>)), Container(TRUE, Href(<<Word, Digits(2), Digits(1)>>))}

\* list pages of up to MaxContainers item containers
GetPageArgs == UNION {[1..n -> ContainerArgs] : n \in 0..MaxContainers}

\* a Card detail page with the top-item region or not, the given links, the
\* data fields but those of `missing`, and a single cell in those of `short`
CardSoup(top, links, missing, short) ==
    DetailPage(top, links, FieldNames \ missing,
               [f \in FieldNames |->
                   IF f \in short THEN <<CardCells("UR")[f][1]>>
                   ELSE CardCells("UR")[f]])

AtMostOne(S) == {{}} \cup {{x} : x \in S}

\* the detail pages given to create_item, with the kind of the parser
CreateItemArgs ==
    {[kind |-> "Card", soup |-> CardSoup(top, links, missing, short), num |-> 1] :
        top \in BOOLEAN,
        links \in {<<>>, <<CNormLo>>, <<CNormLo, CIdolLo>>, <<None, CIdolLo>>,
                   <<CNormLo, None>>},
        missing \in AtMostOne(FieldNames), short \in AtMostOne(FieldNames)}
    \cup {[kind |-> "Still", soup |-> DetailPage(top, links, {}, NoCells), num |-> 1] :
        top \in BOOLEAN, links \in {<<>>, <<None>>, <<SLo>>, <<None, SLo>>}}

\* keys of one and of two digits
PathKeys == {1, 2, 12}

\* unit and idol texts: a plain word, the words that mark the slot, and a
\* text made of a digit, the separator and a slot word
TextArgs == {<<"Muse">>, <<"Normal">>, <<"Idolized">>, <<"2", "_", "Normal">>}

\* the items given to get_paths
GetPathsCards ==
    {CardWith(k, unit, idol, <<"UR">>, urls) :
        k \in PathKeys, unit \in TextArgs, idol \in TextArgs,
        urls \in {<<CNormLo, CIdolLo>>, <<CNormHi, CIdolHi>>}}

GetPathsStills == {Still(k, u) : k \in PathKeys, u \in {SLo, SHi}}

\* two items of one kind
GetPathsArgs == (GetPathsCards \X GetPathsCards) \cup (GetPathsStills \X GetPathsStills)

\* the calls of one method, on each of its arguments
CallsOf(op, args) == {Call(op, a) : a \in args}

InitCalls ==
    /\ img_type = "Card"
    /\ listing = ListingPaged
    /\ detail = [k \in Keys |-> CardPageLo]
    /\ objs = <<>>
    /\ updateables = <<>>
    /\ saved = NoFile
    /\ files = {}
    /\ list_session = "None"
    /\ item_session = "None"
    /\ soup = NoSoup
    /\ pc = "idle"
    /\ pages = <<>>
    /\ page_idx = 0
    /\ recon_idx = 0
    /\ tasks = <<>>
    /\ run = NoRun
    /\ snap = [saved |-> NoFile, files |-> {}]
    /\ dl = NoDl
    /\ count = [calls |-> 0, events |-> 0]
    /\ \/ fn \in CallsOf("needs_update", NeedsUpdateArgs)
       \/ fn \in CallsOf("get_page", GetPageArgs)
       \/ fn \in CallsOf("create_item", CreateItemArgs)
       \/ fn \in CallsOf("get_paths", GetPathsArgs)

\* item.needs_update()
Call_needs_update ==
    /\ fn.op = "needs_update"
    /\ ~fn.done
    /\ fn' = Returned(fn, needs_update(fn.arg))
    /\ UNCHANGED downloader_vars

\* list_parser.get_page(num) on the markup fetched
Call_get_page ==
    /\ fn.op = "get_page"
    /\ ~fn.done
    /\ fn' = Returned(fn, get_page(fn.arg))
    /\ UNCHANGED downloader_vars

\* item_parser.create_item(num) on the parsed page in item_parser.soup
Call_create_item ==
    /\ fn.op = "create_item"
    /\ ~fn.done
    /\ fn' = Returned(fn, create_item(fn.arg.kind, fn.arg.soup, fn.arg.num))
    /\ UNCHANGED downloader_vars

\* item.get_paths(self.path) of two items, under one root
Call_get_paths ==
    /\ fn.op = "get_paths"
    /\ ~fn.done
    /\ fn' = Returned(fn, <<get_paths(fn.arg[1]), get_paths(fn.arg[2])>>)
    /\ UNCHANGED downloader_vars

NextCalls ==
    \/ Call_needs_update
    \/ Call_get_page
    \/ Call_create_item
    \/ Call_get_paths

SpecCalls == InitCalls /\ [][NextCalls]_vars

\* ------------------------------------------------------------------ claims
PendingOf(kind) == {i \in Pending : tasks[i].kind = kind}
UrlsOf(o, k) == get_urls(ItemOf(o, k))
InUpdateables(k) == k \in Range(updateables)

\* C1: in an update() run in which a list-page fetch or a discovery detail
\* fetch fails, the catalog save is never executed: the catalog file is the
\* one the run started with, whatever the sibling tasks do, before and after
\* update() has raised.
C1_FailedDiscoveryNeverSaves ==
    (run.op = "update" /\ run.fetch_failed) => (run.saves = 0 /\ saved = snap.saved)

\* C1's case: update() has raised on a failed fetch after a sibling fetch put
\* an item into the in-memory catalog, which is not the persisted one
C1_Witness ==
    /\ run.op = "update"
    /\ run.fetch_failed
    /\ run.result = "raised"
    /\ objs # <<>>
    /\ objs # saved.items

\* C2: a failure while downloading one item is caught at that item: when
\* download() ends it has not raised, and every catalogued item that did not
\* fail has all its files, each missing or upgraded one written in this run.
C2_DownloadFailureIsPerItem ==
    (run.op = "download" /\ run.result # "running"
        /\ \A i \in DOMAIN objs : ~get_paths_raises(objs[i].item))
    => /\ run.result = "ok"
       /\ \A i \in DOMAIN objs :
            LET item == objs[i].item
                paths == get_paths(item)
            IN  item.key \notin dl.caught =>
                  \A s \in DOMAIN paths :
                    /\ Exists(files, paths[s])
                    /\ (~Exists(snap.files, paths[s]) \/ InUpdateables(item.key))
                         => /\ <<item.key, s>> \in dl.writes
                            /\ [path |-> paths[s], data |-> get_urls(item)[s]] \in files

\* C2's case: download() has returned, one item's download failed and another
\* item's file was written
C2_Witness ==
    /\ run.op = "download"
    /\ run.result = "ok"
    /\ dl.caught # {}
    /\ \E w \in dl.writes : w[1] \notin dl.caught

\* the slots of a download task that create_image_file has been through
Processed(t) == 1..(t.slot - 1)

\* C3: the download phase skips a (path, URL) pair exactly when the file
\* existed and the key is not in the pending-upgrade list; otherwise it
\* fetches that slot's URL and writes it to that path.  Stated of every pair
\* create_image_file has decided and of every fetch in flight.
C3_SkipExactlyWhenPresentAndNotUpgraded ==
    \A i \in DOMAIN tasks :
        (tasks[i].kind = "dl" /\ tasks[i].slot > 0) =>
            LET t == tasks[i]
                item == ItemOf(objs, t.arg)
                paths == get_paths(item)
                Skippable(s) == Exists(snap.files, paths[s]) /\ ~InUpdateables(item.key)
            IN  /\ \A s \in Processed(t) :
                     /\ (<<item.key, s>> \notin dl.writes) <=> Skippable(s)
                     /\ <<item.key, s>> \in dl.writes =>
                          [path |-> paths[s], data |-> get_urls(item)[s]] \in files
                     /\ Skippable(s) =>
                          \E f \in files : f.path = paths[s] /\ f \in snap.files
                /\ (t.st = "pending" \/ t.caught) => ~Skippable(t.slot)

\* C3's case: in one download() an upgraded item whose file existed has been
\* fetched and written again, and another item's existing file was skipped
C3_Witness ==
    \E i, j \in DOMAIN tasks :
        /\ tasks[i].kind = "dl" /\ tasks[j].kind = "dl"
        /\ tasks[i].st = "done" /\ tasks[j].st = "done"
        /\ ~tasks[j].caught
        /\ <<tasks[i].arg, 1>> \in dl.writes
        /\ InUpdateables(tasks[i].arg)
        /\ Exists(snap.files, get_paths(ItemOf(objs, tasks[i].arg))[1])
        /\ <<tasks[j].arg, 1>> \notin dl.writes

\* C4: a download() run right after a download() that had no failure writes
\* no file.
C4_SecondDownloadWritesNothing == dl.again => dl.writes = {}

\* C4's case is the second of two download() calls in a row
\* (dl.again), after a reconciliation that left a key in the list.

\* a catalogued item that is high-res, with no other discovery fetch of its
\* key still in flight
SettledHighRes(k) ==
    /\ k \in CatKeys(objs)
    /\ ~is_double_sized_raises(ItemOf(objs, k))
    /\ is_double_sized(ItemOf(objs, k))
    /\ \A i \in PendingOf("item") : tasks[i].arg # k

C5_Step ==
    /\ \A k \in Keys :
         SettledHighRes(k) =>
           /\ k \in CatKeys(objs')
           /\ UrlsOf(objs', k) = UrlsOf(objs, k)
    /\ pc' = "recon" =>
         /\ ~is_double_sized_raises(objs'[recon_idx'].item)
         /\ ~is_double_sized(objs'[recon_idx'].item)

\* C5: once a catalogued item's primary URL is high-res, no step changes any
\* of its URL slots or removes it, and no reconciliation fetch is ever in
\* flight for a high-res item, across all update() and download() calls.
C5_HighResIsNeverRecheckedOrChanged == [][C5_Step]_vars

\* C5's case: a second update() has run its reconciliation over a catalog
\* whose saved copy already held a high-res item, while the remote page of
\* that item now offers other URLs
C5_Witness ==
    /\ run.op = "update"
    /\ run.result = "ok"
    /\ snap.saved.written
    /\ \E k \in Keys :
         /\ SettledHighRes(k)
         /\ k \in CatKeys(snap.saved.items)
         /\ is_double_sized(ItemOf(snap.saved.items, k))
         /\ detail[k].links # UrlsOf(objs, k)

C6_Step ==
    /\ \A k \in CatKeys(objs) \cap CatKeys(objs') :
         UrlsOf(objs', k) # UrlsOf(objs, k) =>
           /\ create_item(img_type, detail[k], k).ok
           /\ UrlsOf(objs', k) = get_urls(create_item(img_type, detail[k], k).val)
    /\ saved' # saved => saved'.items = objs'
    /\ (run'.recon_failed /\ ~run.recon_failed) => objs' = objs

\* C6: whenever a step changes a URL slot of a catalogued item, all slots of
\* the item after that step are the ones of the detail page just fetched, so
\* no state (and no saved catalog) holds an old URL beside a new one; the step
\* of a failed reconciliation changes no item.
C6_UrlSlotsChangeTogether == [][C6_Step]_vars

\* C6's case: a reconciliation found another primary URL for a Card and the
\* Card now holds the two new URLs
C6_Witness ==
    /\ img_type = "Card"
    /\ \E k \in CatKeys(objs) :
         /\ InUpdateables(k)
         /\ UrlsOf(objs, k) = <<CNormHi, CIdolHi>>

\* C7: a failed detail re-fetch or re-parse during reconciliation is not
\* fatal: update() does not raise because of it.
C7_ReconcileFailureIsNotFatal == run.recon_failed => run.result # "raised"

\* C8: within an update() run and the download() after it no phase starts
\* before the previous one has completed: no detail fetch of discovery beside
\* a list-page fetch, no reconciliation beside a discovery fetch, no save and
\* no download fetch beside any earlier fetch.
C8_PhasesNeverInterleave ==
    /\ pc = "numpages" => Pending = {}
    /\ PendingOf("item") # {} => PendingOf("page") = {}
    /\ pc = "recon" => Pending = {}
    /\ (run.op = "update" /\ run.saves > 0) => (Pending = {} /\ pc = "idle")
    /\ PendingOf("dl") # {} => (PendingOf("page") \cup PendingOf("item") = {} /\ pc # "recon")
    /\ pc = "pages" => PendingOf("item") \cup PendingOf("dl") = {}
    /\ pc = "items" => PendingOf("dl") = {}

\* C8's case: reconciliation is fetching after a discovery that awaited two
\* list pages and at least one batch of detail fetches
C8_Witness ==
    /\ pc = "recon"
    /\ Len(pages) > 1
    /\ Len(objs) > 1

StrictlyDescending(o) == \A i, j \in DOMAIN o : i < j => o[i].key > o[j].key

\* C9: an update() run that ends without error has saved exactly once, at its
\* end (none before it ends, never twice); the saved mapping is in strictly
\* descending key order and holds exactly the pairs of the in-memory catalog.
C9_SavedOnceSortedComplete ==
    /\ run.saves <= 1
    /\ (run.op = "update" /\ run.result = "running") => run.saves = 0
    /\ (run.op = "update" /\ run.result = "raised") => run.saves = 0
    /\ (run.op = "update" /\ run.result = "ok") =>
         /\ run.saves = 1
         /\ saved.written
         /\ saved.kind = img_type
         /\ StrictlyDescending(saved.items)
         /\ Range(saved.items) = Range(objs)
         /\ Len(saved.items) = Len(objs)

\* C9's case: an update() in which no item changed has saved again, a catalog
\* of several items
C9_Witness ==
    /\ run.op = "update"
    /\ run.result = "ok"
    /\ snap.saved.written
    /\ saved = snap.saved
    /\ Len(objs) > 1

\* C10: every key of the catalog maps to an item with that key whose URL
\* slots and fields all hold a parsed value.
C10_CatalogHoldsCompleteItems ==
    \A i \in DOMAIN objs :
        LET item == objs[i].item
        IN  /\ item.key = objs[i].key
            /\ \A s \in DOMAIN get_urls(item) : IsStr(get_urls(item)[s])

\* C11: discovery deduplicates the advertised keys: in a run no two detail
\* fetches are issued for the same key, and none is in flight for a key that
\* is already in the catalog.
C11_OneDetailFetchPerNewKey ==
    /\ \A i, j \in Awaited :
         (tasks[i].kind = "item" /\ tasks[j].kind = "item"
            /\ tasks[i].arg = tasks[j].arg) => i = j
    /\ \A i \in Awaited \cap PendingOf("item") : tasks[i].arg \notin CatKeys(objs)

\* C12: no step of update(), download() or a catalog save removes a key from
\* the in-memory catalog, and no save removes a key from the catalog file,
\* also when no list page advertises the key any more.
C12_CatalogNeverLosesAKey ==
    [][/\ CatKeys(objs) \subseteq CatKeys(objs')
       /\ CatKeys(saved.items) \subseteq CatKeys(saved'.items)]_vars

\* C12's case: an update() has run to its save over a listing that no longer
\* advertises key 1, and key 1 is still in the catalog and in the file
C12_Witness ==
    /\ listing = ListingPagedShort
    /\ run.op = "update"
    /\ run.result = "ok"
    /\ 1 \in CatKeys(objs)
    /\ 1 \in CatKeys(saved.items)
    /\ \A n \in DOMAIN pages : 1 \notin Range(pages[n])

\* the top rarity tier of the site
TopRarity == <<"UR">>

\* C13: needs_update() of a Still is true exactly when the Still is not
\* high-res; of a Card it is true unless the Card is high-res and its rarity
\* differs from the top rarity tier.
C13_NeedsUpdateAsSpecified ==
    (fn.op = "needs_update" /\ fn.done) =>
        LET item == fn.arg
            high_res == HasDoubleSizeMarker(get_urls(item)[1])
        IN  IF item.kind = "Still" THEN fn.ret = ~high_res
            ELSE fn.ret = ~(high_res /\ item.rarity # TopRarity)

\* the item containers of a page that hold a link carrying a key
Keyed(page) ==
    {i \in DOMAIN page : page[i].a /\ page[i].href.str /\ KeyMatch(page[i].href).found}

NonIncreasing(ks) == \A i, j \in DOMAIN ks : i < j => ks[i] >= ks[j]

\* C14 as claimed: get_page returns a non-empty descending sequence of the
\* keys of the page's item containers or fails with ListParsingException, and
\* it fails whenever some item container lacks a link that carries a key.
C14_FailsOnAnyContainerWithoutKey ==
    (fn.op = "get_page" /\ fn.done) =>
        /\ fn.ret.ok => (fn.ret.val # <<>> /\ NonIncreasing(fn.ret.val))
        /\ ~fn.ret.ok => fn.ret.exc = "ListParsingException"
        /\ Keyed(fn.arg) # DOMAIN fn.arg => ~fn.ret.ok

\* C14 amended: get_page returns the keys of the item containers that hold a
\* key link, each as often as it is linked, in descending order, and fails
\* with ListParsingException exactly when no container holds a key link; it
\* never returns an empty sequence.
C14_FailsWhenNoContainerHasKey ==
    (fn.op = "get_page" /\ fn.done) =>
        LET page == fn.arg
            ret == fn.ret
        IN  IF Keyed(page) = {}
            THEN ~ret.ok /\ ret.exc = "ListParsingException"
            ELSE /\ ret.ok
                 /\ ret.val # <<>>
                 /\ NonIncreasing(ret.val)
                 /\ \A k \in Keys :
                      Cardinality({i \in DOMAIN ret.val : ret.val[i] = k})
                        = Cardinality({i \in Keyed(page) : KeyMatch(page[i].href).n = k})
                 /\ \A i \in DOMAIN ret.val : ret.val[i] \in Keys

\* C14's case: get_page has returned the keys of a page that lists an older
\* key before a newer one, beside a container without a key link
C14_Witness ==
    /\ fn.op = "get_page"
    /\ fn.done
    /\ fn.ret.ok
    /\ Keyed(fn.arg) # DOMAIN fn.arg
    /\ \E i, j \in Keyed(fn.arg) :
          i < j /\ KeyMatch(fn.arg[i].href).n < KeyMatch(fn.arg[j].href).n

\* a detail page that lacks a required region or field: for a Card fewer than
\* two links with a URL in the top-item region, or a data field absent or
\* without a second cell; for a Still no link with a URL in the region
LacksRequired(kind, page) ==
    IF kind = "Card"
    THEN \/ ~page.top
         \/ Cardinality({i \in DOMAIN page.links : IsStr(page.links[i])}) < 2
         \/ \E f \in FieldNames : f \notin page.has \/ Len(page.cells[f]) < 2
    ELSE \/ ~page.top
         \/ \A i \in DOMAIN page.links : ~IsStr(page.links[i])

\* C15: on a detail page that lacks a required region or field create_item
\* raises ItemParsingException, no other error, and returns no item.
C15_MissingPartRaisesItemParsing ==
    (fn.op = "create_item" /\ fn.done /\ LacksRequired(fn.arg.kind, fn.arg.soup)) =>
        (~fn.ret.ok /\ fn.ret.exc = "ItemParsingException")

\* C16: get_paths gives the same paths for the same item, and within one kind
\* different (key, slot) pairs never get the same path, whatever the unit and
\* idol texts and the URLs are.
C16_PathsAreCollisionFree ==
    (fn.op = "get_paths" /\ fn.done) =>
        /\ fn.arg[1] = fn.arg[2] => fn.ret[1] = fn.ret[2]
        /\ \A s \in DOMAIN fn.ret[1], t \in DOMAIN fn.ret[2] :
             <<fn.arg[1].key, s>> # <<fn.arg[2].key, t>> => fn.ret[1][s] # fn.ret[2][t]

\* C16's case: the paths of two Cards of different keys whose other fields
\* are the same and hold the words that mark the slot
C16_Witness ==
    /\ fn.op = "get_paths"
    /\ fn.done
    /\ fn.arg[1].kind = "Card"
    /\ fn.arg[1].key # fn.arg[2].key
    /\ [fn.arg[1] EXCEPT !.key = 0] = [fn.arg[2] EXCEPT !.key = 0]
    /\ fn.arg[1].unit = <<"Idolized">>
    /\ fn.arg[1].idol = <<"2", "_", "Normal">>

\* C17: when the reconciliation pass of an update() has ended, the
\* pending-upgrade list holds exactly the keys whose primary URL that pass
\* changed.
C17_UpdateablesAreThoseOfThisPass ==
    (run.op = "update" /\ run.result = "ok") => Range(updateables) = run.changed

\* C18: in update() every listing or detail fetch made through a parser is
\* issued with a session set on that parser: no fetch is in flight on a parser
\* whose session is None, and no task and no call ever raises
\* NoHTTPSessionException.
C18_SessionSetBeforeEveryFetch ==
    /\ (pc = "numpages" \/ PendingOf("page") # {}) => ~get_html_raises(list_session)
    /\ (pc = "recon" \/ PendingOf("item") # {}) => ~get_html_raises(item_session)
    /\ \A i \in DOMAIN tasks : tasks[i].exc # "NoHTTPSessionException"
    /\ run.exc # "NoHTTPSessionException"

\* C18's case: a later update() is fetching in its reconciliation, after its
\* own list pages and detail pages were fetched and their sessions left
C18_Witness ==
    /\ pc = "recon"
    /\ count.calls > 1
    /\ list_session = "closed"
    /\ item_session = "open"
    /\ Len(pages) > 1

\* C19: whenever a detail fetch of discovery stores an item under key k, in
\* any interleaving of the fetches of a batch, the item is the one
\* create_item builds from the page fetched for k, and the shared parsed-page
\* slot holds that page.
C19_ItemBuiltFromOwnMarkup ==
    [][\A k \in Keys :
          (/\ pc # "recon"
           /\ k \in CatKeys(objs')
           /\ k \in CatKeys(objs) => ItemOf(objs', k) # ItemOf(objs, k))
          => /\ create_item(img_type, detail[k], k).ok
             /\ ItemOf(objs', k) = create_item(img_type, detail[k], k).val
             /\ soup' = detail[k]]_vars

\* C19's case: the fetches of one batch for two keys whose pages differ have
\* both ended, the slot holds the page of the one that ended last, and each
\* key has the item of its own page
C19_Witness ==
    /\ pc = "items"
    /\ \E i, j \in Awaited :
          /\ tasks[i].kind = "item" /\ tasks[j].kind = "item"
          /\ tasks[i].st = "done" /\ tasks[j].st = "done"
          /\ tasks[i].arg # tasks[j].arg
          /\ detail[tasks[i].arg] # detail[tasks[j].arg]
          /\ soup = detail[tasks[j].arg]
          /\ UrlsOf(objs, tasks[i].arg) = detail[tasks[i].arg].links
          /\ UrlsOf(objs, tasks[j].arg) = detail[tasks[j].arg].links

\* C20: once update() has returned or raised, no task it started stores an
\* item in the catalog or completes a fetch through a parser any more.
C20_NoTaskOutlivesUpdate ==
    [][(pc = "idle" /\ run.op = "update") => (objs' = objs /\ soup' = soup)]_vars

====
